---- MODULE Spec2Model ----
(***************************************************************************)
(* Model of the AMY builder of Herbie-Fully-Loaded:                        *)
(*   - the per-hour fetch pool        (utils.get_grib_data),               *)
(*   - the per-hour cache assembler   (utils.combine_cache_files),         *)
(*   - the uncached-date scan         (AMY._identify_uncached_dates),      *)
(*   - the weather-code encoder       (utils.parse_weather_code),          *)
(*   - the wet-bulb temperature       (utils.T_wet),                       *)
(*   - the days since last snowfall   (AMY._intermediate_calculations),    *)
(*   - the formula library            (utils.cloud_cover_to_opaque_sky_    *)
(*                                     cover, convert_uv_projection_to_en),*)
(*   - the AMY object                 (AMY.__init__, AMY.create_amy),      *)
(*   - the derivation of one row      (AMY._intermediate_calculations,     *)
(*                                     AMY._amy_data_df).                  *)
(* Timestamps are whole hours counted from 2022-01-01 00:00 UTC.  File     *)
(* names are the character codes strftime produces, so that the sort and   *)
(* the existence tests work on the same strings as the code.               *)
(***************************************************************************)
EXTENDS Integers, Sequences, FiniteSets, TLC

VARIABLES
    cache,      \* the cache directory: file name -> the record the file holds
    op,         \* the call in progress or last finished
    args,       \* its arguments
    phase,      \* position inside the call
    task,       \* get_grib_data: status of each delayed grib_download_wrapper
    out,        \* get_grib_data: the local `out` (Unbound until Parallel returns)
    written,    \* get_grib_data: names of the files this call saved
    saved,      \* names of the files any get_grib_data call has saved so far
    result,     \* what the last finished call returned or raised
    wc_in,      \* parse_weather_code: the arguments
    wc_out,     \* parse_weather_code: the outcome
    tw_in,      \* T_wet: the arguments
    tw_out,     \* T_wet: the outcome
    sn_in,      \* _intermediate_calculations: the csnow column and the row looked at
    sn_out,     \* _intermediate_calculations: that row of the snowfall columns
    self,       \* the AMY object: its attributes
    frames,     \* the tables in memory: reference -> the row the table holds
    call_in,    \* formula library and AMY methods: the call and its arguments
    call_out    \* formula library and AMY methods: the outcome

vars == <<cache, op, args, phase, task, out, written, saved, result, wc_in, wc_out,
          tw_in, tw_out, sn_in, sn_out, self, frames, call_in, call_out>>
pipe_vars == <<cache, op, args, phase, task, out, written, saved, result>>
wc_vars == <<wc_in, wc_out>>
calc_vars == <<tw_in, tw_out, sn_in, sn_out>>
row_vars == <<self, frames, call_in, call_out>>

(***************************************************************************)
(* Bounds of the model.                                                    *)
(***************************************************************************)
MaxHour == 11       \* last hour of the modelled period
MaxJobs == 2        \* largest n_jobs
MaxFreq == 2        \* largest grid step, in hours
MaxDay == 101       \* last day of the table the snowfall columns are derived from

\* the period starts at 09:00, so that its hour strings run "09", "10", "11"
Hours == 9..MaxHour
Freqs == 1..MaxFreq

None == "None"

(***************************************************************************)
(* strftime and paths.                                                     *)
(***************************************************************************)
Chr(d) == 48 + d                         \* character code of a decimal digit
TwoDigits(n) == <<Chr((n \div 10) % 10), Chr(n % 10)>>
Ext == <<46, 99, 115, 118>>              \* ".csv"
YearMonth == <<Chr(2), Chr(0), Chr(2), Chr(2), Chr(0), Chr(1)>>   \* "202201"
DayOf(t) == 1 + (t \div 24)
HourOf(t) == t % 24

\* i.strftime("%Y%m%d%H%M%S.csv"), the name the writer and the assembler use
strftime_YmdHMS(t) ==
    YearMonth \o TwoDigits(DayOf(t)) \o TwoDigits(HourOf(t))
              \o TwoDigits(0) \o TwoDigits(0) \o Ext

\* i.strftime("%Y%m%d%H%M.csv"), the name the uncached-date scan looks for
strftime_YmdHM(t) ==
    YearMonth \o TwoDigits(DayOf(t)) \o TwoDigits(HourOf(t))
              \o TwoDigits(0) \o Ext

\* save_path of grib_download_wrapper
save_path(t) == strftime_YmdHMS(t)

\* path built by combine_cache_files for one grid timestamp
cache_file_path(t) == strftime_YmdHMS(t)

\* path tested by _identify_uncached_dates for one grid timestamp
uncached_test_path(t) == strftime_YmdHM(t)

\* pd.date_range(start_date, end_date, freq=freq)
date_range(start, end, freq) ==
    IF end < start THEN << >>
    ELSE [k \in 1..(((end - start) \div freq) + 1) |-> start + (k - 1) * freq]

Range(s) == {s[i] : i \in DOMAIN s}

\* Python's str comparison: first differing character decides, a proper prefix is smaller
StrLess(a, b) ==
    \E i \in 1..(Len(a) + 1) :
        /\ \A j \in 1..(i - 1) : j <= Len(b) /\ a[j] = b[j]
        /\ \/ i = Len(a) + 1 /\ Len(b) >= i
           \/ i <= Len(a) /\ i <= Len(b) /\ a[i] < b[i]

\* list.sort() on the path strings (stable insertion)
RECURSIVE InsertPath(_, _)
InsertPath(x, s) ==
    IF s = << >> THEN <<x>>
    ELSE IF StrLess(x, s[Len(s)]) THEN Append(InsertPath(x, SubSeq(s, 1, Len(s) - 1)), s[Len(s)])
    ELSE Append(s, x)

\* the same sort with reverse=True
RECURSIVE SortPathsReversed(_)
SortPathsReversed(s) ==
    IF s = << >> THEN << >>
    ELSE LET r == SortPathsReversed(SubSeq(s, 1, Len(s) - 1))
             k == Cardinality({i \in DOMAIN r : ~StrLess(r[i], s[Len(s)])})
         IN  SubSeq(r, 1, k) \o <<s[Len(s)]>> \o SubSeq(r, k + 1, Len(r))

RECURSIVE SortPaths(_)
SortPaths(s) ==
    IF s = << >> THEN << >>
    ELSE InsertPath(s[Len(s)], SortPaths(SubSeq(s, 1, Len(s) - 1)))

\* DataFrame.sort_index(): rows ascending by index label (stable insertion)
RECURSIVE InsertRow(_, _)
InsertRow(x, s) ==
    IF s = << >> THEN <<x>>
    ELSE IF x.index < s[Len(s)].index THEN Append(InsertRow(x, SubSeq(s, 1, Len(s) - 1)), s[Len(s)])
    ELSE Append(s, x)

RECURSIVE sort_index(_)
sort_index(s) ==
    IF s = << >> THEN << >>
    ELSE InsertRow(s[Len(s)], sort_index(SubSeq(s, 1, Len(s) - 1)))

(***************************************************************************)
(* Outcomes of a call.                                                     *)
(***************************************************************************)
NoResult == [kind |-> "none", exc |-> None, names |-> {}, value |-> << >>]
Returned(v) == [kind |-> "return", exc |-> None, names |-> {}, value |-> v]
Raised(e, n) == [kind |-> "raise", exc |-> e, names |-> n, value |-> << >>]

NoArgs == [dates |-> << >>, failing |-> {}, n_jobs |-> 0, start |-> 0, end |-> 0, freq |-> 0]
OutUnbound == [bound |-> FALSE, value |-> << >>]

(***************************************************************************)
(* utils.combine_cache_files                                               *)
(***************************************************************************)
\* the frame written by get_grib_hour_data for hour t: one row, index [grib_dt]
HourFrame(t) == [stamp |-> t, data |-> t]

combine_cache_files(c, start_date, end_date, freq) ==
    LET all_dates == date_range(start_date, end_date, freq)
        all_cache_file_paths ==
            SortPaths([i \in DOMAIN all_dates |-> cache_file_path(all_dates[i])])
        absent == {i \in DOMAIN all_cache_file_paths :
                      all_cache_file_paths[i] \notin DOMAIN c}
        first_absent == CHOOSE i \in absent : \A j \in absent : i <= j
        \* pd.concat of the frames read, in path order, then the index overwritten
        relabelled == [i \in DOMAIN all_cache_file_paths |->
                         [index |-> all_dates[i],
                          data |-> c[all_cache_file_paths[i]].data]]
    IN  IF absent # {}
          THEN Raised("FileNotFoundError", {all_cache_file_paths[first_absent]})
        ELSE IF all_dates = << >>
          THEN Raised("ValueError", {})
        ELSE Returned(sort_index(relabelled))

(***************************************************************************)
(* AMY._identify_uncached_dates                                            *)
(***************************************************************************)
_identify_uncached_dates(c, start_date, end_date, freq) ==
    LET all_dates == date_range(start_date, end_date, freq)
        Uncached(t) == uncached_test_path(t) \notin DOMAIN c
    IN  SelectSeq(all_dates, Uncached)

(***************************************************************************)
(* utils.get_grib_hour_data and utils.get_grib_data                        *)
(***************************************************************************)
\* One single-hour fetch.  The grid provider raises for the hours in `failing`;
\* the handler then evaluates "exception:" + e, a str + Exception, which raises
\* TypeError out of the function, so the `return None` after it is never reached.
get_grib_hour_data(grib_dt, failing) ==
    IF grib_dt \in failing
      THEN Raised("TypeError", {})
      ELSE Returned(HourFrame(grib_dt))

\* grib_download_wrapper returning its timestamp whether or not it saved
WrapperValueAlwaysTimestamp(grib_datetime, df_is_none) ==
    [none |-> FALSE, dt |-> grib_datetime]

\* return value of grib_download_wrapper when get_grib_hour_data returned `df`
WrapperValue(grib_datetime, df_is_none) ==
    IF df_is_none THEN [none |-> FALSE, dt |-> grib_datetime]
                  ELSE [none |-> TRUE, dt |-> 0]

Running == {i \in DOMAIN task : task[i] = "running"}
SomeRaised == \E i \in DOMAIN task : task[i] = "raised"

\* ascending lists of distinct hours, the shape of `grib_datetimes` (a filtered date_range)
RECURSIVE AscendingList(_)
AscendingList(S) ==
    IF S = {} THEN << >>
    ELSE LET m == CHOOSE x \in S : \A y \in S : y <= x
         IN  Append(AscendingList(S \ {m}), m)

DateLists == {AscendingList(S) : S \in SUBSET Hours}

get_grib_data_call(dates, failing, n_jobs) ==
    /\ phase = "idle"
    /\ op' = "get_grib_data"
    /\ args' = [NoArgs EXCEPT !.dates = dates, !.failing = failing, !.n_jobs = n_jobs]
    /\ phase' = "parallel"
    /\ task' = [i \in DOMAIN dates |-> "pending"]
    /\ out' = OutUnbound
    /\ written' = {}
    /\ result' = NoResult
    /\ UNCHANGED <<cache, saved, wc_vars, calc_vars, row_vars>>

\* Parallel hands the next delayed call, in list order, to a free worker
TaskStart(i) ==
    /\ phase = "parallel"
    /\ i \in DOMAIN task
    /\ task[i] = "pending"
    /\ \A j \in 1..(i - 1) : task[j] # "pending"
    /\ Cardinality(Running) < args.n_jobs
    /\ ~SomeRaised \/ args.n_jobs > 1
    /\ task' = [task EXCEPT ![i] = "running"]
    /\ UNCHANGED <<cache, op, args, phase, out, written, saved, result, wc_vars, calc_vars, row_vars>>

\* body of grib_download_wrapper for the i-th timestamp
grib_download_wrapper(i) ==
    /\ phase = "parallel"
    /\ i \in DOMAIN task
    /\ task[i] = "running"
    /\ LET grib_datetime == args.dates[i]
           df == get_grib_hour_data(grib_datetime, args.failing)
       IN  IF df.kind = "raise"
             THEN /\ task' = [task EXCEPT ![i] = "raised"]
                  /\ UNCHANGED <<cache, written, saved>>
             ELSE /\ cache' = [n \in DOMAIN cache \cup {save_path(grib_datetime)} |->
                                 IF n = save_path(grib_datetime) THEN df.value ELSE cache[n]]
                  /\ written' = written \cup {save_path(grib_datetime)}
                  /\ saved' = saved \cup {save_path(grib_datetime)}
                  /\ task' = [task EXCEPT ![i] = "done"]
    /\ UNCHANGED <<op, args, phase, out, result, wc_vars, calc_vars, row_vars>>

\* with several workers, a task in flight when a sibling raised may be cut short
TaskKilled(i) ==
    /\ phase = "parallel"
    /\ i \in DOMAIN task
    /\ task[i] = "running"
    /\ SomeRaised
    /\ args.n_jobs > 1
    /\ task' = [task EXCEPT ![i] = "killed"]
    /\ UNCHANGED <<cache, op, args, phase, out, written, saved, result, wc_vars, calc_vars, row_vars>>

\* Parallel(...)(...) returns the list of the wrappers' return values
ParallelReturns ==
    /\ phase = "parallel"
    /\ \A i \in DOMAIN task : task[i] = "done"
    /\ out' = [bound |-> TRUE,
               value |-> [i \in DOMAIN task |-> WrapperValue(args.dates[i], FALSE)]]
    /\ phase' = "after"
    /\ UNCHANGED <<cache, op, args, task, written, saved, result, wc_vars, calc_vars, row_vars>>

\* Parallel re-raises a task's exception; `except Exception` logs it, `out` stays unbound
ParallelRaises ==
    /\ phase = "parallel"
    /\ SomeRaised
    /\ Running = {}
    /\ phase' = "after"
    /\ UNCHANGED <<cache, op, args, task, out, written, saved, result, wc_vars, calc_vars, row_vars>>

\* return [i for i in out if i is not None]
get_grib_data_return ==
    /\ phase = "after"
    /\ result' = IF out.bound
                   THEN LET NotNone(x) == ~x.none
                            kept == SelectSeq(out.value, NotNone)
                        IN  Returned([k \in DOMAIN kept |-> kept[k].dt])
                   ELSE Raised("UnboundLocalError", {})
    /\ phase' = "done"
    /\ task' = << >>
    /\ out' = OutUnbound
    /\ UNCHANGED <<cache, op, args, written, saved, wc_vars, calc_vars, row_vars>>

(***************************************************************************)
(* Calls of the assembler and of the scan.                                 *)
(***************************************************************************)
combine_cache_files_call(start_date, end_date, freq) ==
    /\ phase = "idle"
    /\ op' = "combine_cache_files"
    /\ args' = [NoArgs EXCEPT !.start = start_date, !.end = end_date, !.freq = freq]
    /\ result' = combine_cache_files(cache, start_date, end_date, freq)
    /\ phase' = "done"
    /\ UNCHANGED <<cache, task, out, written, saved, wc_vars, calc_vars, row_vars>>

identify_uncached_dates_call(start_date, end_date, freq) ==
    /\ phase = "idle"
    /\ op' = "_identify_uncached_dates"
    /\ args' = [NoArgs EXCEPT !.start = start_date, !.end = end_date, !.freq = freq]
    /\ result' = Returned(_identify_uncached_dates(cache, start_date, end_date, freq))
    /\ phase' = "done"
    /\ UNCHANGED <<cache, task, out, written, saved, wc_vars, calc_vars, row_vars>>

\* the caller takes the outcome and goes on; the finished call's frame is gone
CallerContinues ==
    /\ phase = "done"
    /\ phase' = "idle"
    /\ op' = "none"
    /\ args' = NoArgs
    /\ result' = NoResult
    /\ written' = {}
    /\ UNCHANGED <<cache, task, out, saved, wc_vars, calc_vars, row_vars>>

(***************************************************************************)
(* The cache directory when the program starts: for every hour of the      *)
(* period its file is absent or holds a record stamped with another hour   *)
(* (a file the program did not write).  Files holding the hour's own       *)
(* record appear when get_grib_data saves them.                            *)
(***************************************************************************)
OtherHour(t) == IF t = MaxHour THEN MaxHour - 1 ELSE t + 1
HourOfPath(n) == CHOOSE t \in Hours : save_path(t) = n

InitialCaches ==
    {[n \in {save_path(t) : t \in S} |-> HourFrame(OtherHour(HourOfPath(n)))] :
       S \in SUBSET Hours}

\* the encoder's variables while the pipeline runs
WcIdle == [accumulated_precipitation |-> 0]

\* the pipeline before any call, with an empty cache directory
PipeIdle ==
    /\ cache = << >>
    /\ op = "none"
    /\ args = NoArgs
    /\ phase = "idle"
    /\ task = << >>
    /\ out = OutUnbound
    /\ written = {}
    /\ saved = {}
    /\ result = NoResult

PipeInit ==
    /\ cache \in InitialCaches
    /\ op = "none"
    /\ args = NoArgs
    /\ phase = "idle"
    /\ task = << >>
    /\ out = OutUnbound
    /\ written = {}
    /\ saved = {}
    /\ result = NoResult

\* no AMY object, no table in memory, no call of the library or of a method
NoObject == [exists |-> FALSE]
NoCall == [fn |-> "none"]
RowIdle ==
    /\ self = NoObject
    /\ frames = << >>
    /\ call_in = NoCall
    /\ call_out = NoResult

\* the calculators before any call: no arguments, no outcome
CalcIdle ==
    /\ tw_in = NoArgs
    /\ tw_out = NoResult
    /\ sn_in = NoArgs
    /\ sn_out = NoResult
    /\ RowIdle

Init ==
    /\ PipeInit
    /\ wc_in = WcIdle
    /\ wc_out = NoResult
    /\ CalcIdle

Next ==
    \/ \E dates \in DateLists, n_jobs \in 1..MaxJobs :
          \E failing \in SUBSET Range(dates) : get_grib_data_call(dates, failing, n_jobs)
    \/ \E i \in 1..Cardinality(Hours) : TaskStart(i)
    \/ \E i \in 1..Cardinality(Hours) : grib_download_wrapper(i)
    \/ \E i \in 1..Cardinality(Hours) : TaskKilled(i)
    \/ ParallelReturns
    \/ ParallelRaises
    \/ get_grib_data_return
    \/ \E s \in Hours, e \in Hours, f \in Freqs : combine_cache_files_call(s, e, f)
    \/ \E s \in Hours, e \in Hours, f \in Freqs : identify_uncached_dates_call(s, e, f)
    \/ CallerContinues

Spec == Init /\ [][Next]_vars

(***************************************************************************)
(* utils.parse_weather_code                                                *)
(*                                                                         *)
(* Quantities are scaled to integers: precipitation in tenths of a mm,     *)
(* wind gust in tenths of a m/s, visibility in tenths of the unit the code *)
(* compares it in, percent frozen precipitation in percent.  Smoke density *)
(* spans ten orders of magnitude and is kept as m * 10^e kg/m^3 with m in  *)
(* 0..9.  An element of the weather_code list is a Python value: a str of  *)
(* one character or an int.                                                *)
(***************************************************************************)
PyStr(c) == [type |-> "str", digit |-> c]
PyInt(c) == [type |-> "int", digit |-> c]

Sci(m, e) == [m |-> m, e |-> e]
\* a > b for non-negative m * 10^e values with m in 0..9
SciGreater(a, b) ==
    \/ a.m > 0 /\ b.m = 0
    \/ a.m > 0 /\ b.m > 0 /\ (a.e > b.e \/ (a.e = b.e /\ a.m > b.m))

code1_thunderstorms(lightning, wind_gusts) ==
    IF lightning
      THEN IF wind_gusts > 257 THEN PyStr(1) ELSE PyStr(0)
      ELSE PyStr(9)

code2_rain(accumulated_precipitation, freezing_rain) ==
    IF accumulated_precipitation > 0
      THEN IF ~freezing_rain
             THEN IF accumulated_precipitation < 25 THEN PyStr(0)
                  ELSE IF accumulated_precipitation < 76 THEN PyStr(1)
                  ELSE PyStr(2)
             ELSE IF accumulated_precipitation < 25 THEN PyStr(6)
                  ELSE IF accumulated_precipitation < 76 THEN PyStr(7)
                  ELSE PyStr(8)
      ELSE PyStr(9)

\* the squall branch assigns first, the drizzle if/else then always reassigns
code3_combined_rain(accumulated_precipitation, pct_freezing_precipitation, visibility, wind_gust_speed) ==
    LET code_after_squalls ==
            IF wind_gust_speed > 150
              THEN IF accumulated_precipitation < 25 THEN PyStr(0) ELSE PyStr(1)
              ELSE PyInt(9)
    IN  \* the drizzle if/else is not an elif of the squall test: it assigns in
        \* both branches, so code_after_squalls never survives
        IF pct_freezing_precipitation <= 0
          THEN IF visibility > 10 THEN PyStr(3)
               ELSE IF visibility > 5 THEN PyStr(4)
               ELSE PyStr(5)
          ELSE IF visibility > 10 THEN PyStr(6)
               ELSE IF visibility > 5 THEN PyStr(7)
               ELSE PyStr(8)

\* code4_snow_ice with the ice branch split by amount (codes 6, 7, 8)
code4_snow_ice_tiered(accumulated_precipitation, ice_pellets) ==
    IF accumulated_precipitation < 25 THEN PyStr(IF ice_pellets THEN 6 ELSE 0)
    ELSE IF accumulated_precipitation < 76 THEN PyStr(IF ice_pellets THEN 7 ELSE 1)
    ELSE PyStr(IF ice_pellets THEN 8 ELSE 2)

code4_snow_ice(accumulated_precipitation, ice_pellets) ==
    IF ice_pellets THEN PyStr(7)
    ELSE IF accumulated_precipitation < 25 THEN PyStr(0)
    ELSE IF accumulated_precipitation < 76 THEN PyStr(1)
    ELSE PyStr(2)

code5_snow_showers(accumulated_precipitation, wind_gust_speed, ice_pellets) ==
    IF ice_pellets
      THEN IF accumulated_precipitation < 25 THEN PyStr(6) ELSE PyStr(7)
    ELSE IF wind_gust_speed > 150
      THEN IF accumulated_precipitation < 25 THEN PyStr(3)
           ELSE IF accumulated_precipitation < 76 THEN PyStr(4)
           ELSE PyStr(5)
    ELSE IF accumulated_precipitation < 25 THEN PyStr(0)
         ELSE IF accumulated_precipitation < 76 THEN PyStr(1)
         ELSE PyStr(2)

\* code6_sleet without the heavy tier
code6_sleet_two_tiers(accumulated_precipitation) ==
    IF accumulated_precipitation < 25 THEN PyStr(0) ELSE PyStr(1)
\* code6_sleet returning the ice code of code4_snow_ice
code6_sleet_as_ice_crystals(accumulated_precipitation) == PyStr(7)

code6_sleet(accumulated_precipitation) ==
    IF accumulated_precipitation < 25 THEN PyStr(0)
    ELSE IF accumulated_precipitation < 76 THEN PyStr(1)
    ELSE PyStr(2)

\* returns the ints 9, 1, 0, not characters
code8_smoke_haze(smoke) ==
    IF SciGreater(smoke, Sci(5, -4)) THEN PyInt(1)
    ELSE IF SciGreater(smoke, Sci(1, -5)) THEN PyInt(0)
    ELSE PyInt(9)

\* `if accumulated_precipitation >= 0:` in place of `> 0`
PrecipitationGateInclusive(accumulated_precipitation) == accumulated_precipitation >= 0
\* `if accumulated_precipitation > 0:` guarding codes 2-6 and 9
PrecipitationGate(accumulated_precipitation) == accumulated_precipitation > 0

\* `if smoke > 1e5:` guarding code 8
SmokeGate(smoke) == SciGreater(smoke, Sci(1, 5))

\* "".join(weather_code): every element must be a str
join(weather_code) ==
    IF \A i \in DOMAIN weather_code : weather_code[i].type = "str"
      THEN Returned([i \in DOMAIN weather_code |-> weather_code[i].digit])
      ELSE Raised("TypeError", {})

\* An argument the caller has no value for arrives as None or as NaN (the
\* pipeline's row lambda passes the cell of the table, NaN when nothing was
\* observed).  x.absent names at most one such argument; the field of that
\* name is then not read.
AllPresent == [field |-> "", as |-> ""]
Absent(f, a) == [field |-> f, as |-> a]
is_None(x, f) == x.absent = Absent(f, "None")
is_NaN(x, f) == x.absent = Absent(f, "NaN")
\* `if flag:` -- None is false, NaN is a non-zero float and so true
truth(x, f) == IF is_None(x, f) THEN FALSE ELSE IF is_NaN(x, f) THEN TRUE ELSE x[f]

\* A comparison of None with a number raises TypeError; a comparison of NaN
\* with a number is False.
parse_weather_code(x) ==
    LET w0 == [i \in 1..9 |-> PyStr(9)]
        w1 == IF truth(x, "lightning")
                THEN [w0 EXCEPT ![1] = code1_thunderstorms(truth(x, "lightning"),
                                                           x.wind_gust_speed)]
                ELSE w0
        wet == /\ ~is_NaN(x, "accumulated_precipitation")
               /\ PrecipitationGate(x.accumulated_precipitation)
        w2 == IF wet /\ truth(x, "rain")
                THEN [w1 EXCEPT
                        ![2] = code2_rain(x.accumulated_precipitation, x.freezing_rain),
                        ![3] = code3_combined_rain(x.accumulated_precipitation,
                                                   x.pct_frozen_precipitation,
                                                   x.visibility, x.wind_gust_speed)]
                ELSE w1
        w3 == IF wet /\ truth(x, "snow")
                THEN [w2 EXCEPT
                        ![4] = code4_snow_ice(x.accumulated_precipitation,
                                              truth(x, "ice_pellets")),
                        ![5] = code5_snow_showers(x.accumulated_precipitation,
                                                  x.wind_gust_speed,
                                                  truth(x, "ice_pellets"))]
                ELSE w2
        w4 == IF wet /\ truth(x, "ice_pellets")
                THEN [w3 EXCEPT ![6] = code6_sleet(x.accumulated_precipitation),
                                ![9] = code6_sleet(x.accumulated_precipitation)]
                ELSE w3
        w5 == IF ~is_NaN(x, "smoke") /\ SmokeGate(x.smoke)
                THEN [w4 EXCEPT ![8] = code8_smoke_haze(x.smoke)]
                ELSE w4
    IN  IF is_None(x, "accumulated_precipitation") \/ is_None(x, "smoke")
          THEN Raised("TypeError", {})
          ELSE join(w5)

\* sampled argument values, on both sides of every threshold the code compares with
PrecipSamples == {0, 1, 25, 75, 76}
GustSamples == {150, 151, 257, 300}
VisibilitySamples == {5, 6, 10, 11}
PctFrozenSamples == {-50, 0, 50}
SmokeSamples == {Sci(0, 0), Sci(1, -5), Sci(2, -5), Sci(1, -4), Sci(5, -4),
                 Sci(1, -3), Sci(1, 5), Sci(2, 5)}

WeatherCodeInputs ==
    [accumulated_precipitation : PrecipSamples,
     freezing_rain : BOOLEAN,
     ice_pellets : BOOLEAN,
     lightning : BOOLEAN,
     rain : BOOLEAN,
     snow : BOOLEAN,
     pct_frozen_precipitation : PctFrozenSamples,
     visibility : VisibilitySamples,
     wind_gust_speed : GustSamples,
     smoke : SmokeSamples,
     absent : {AllPresent}]

\* the arguments one of which may have no value
GoverningInputs == {"accumulated_precipitation", "lightning", "rain", "snow",
                    "ice_pellets", "smoke"}
\* calls in which exactly one governing argument is None or NaN; the other
\* arguments take the sampled values that make every digit's branch run
WeatherCodeInputsAbsent ==
    {[x EXCEPT !.absent = Absent(f, a)] :
        x \in {y \in WeatherCodeInputs :
                  /\ y.visibility = 11
                  /\ y.pct_frozen_precipitation = 0
                  /\ ~y.freezing_rain
                  /\ y.wind_gust_speed \in {150, 300}
                  /\ ~SmokeGate(y.smoke)},
        f \in GoverningInputs, a \in {"None", "NaN"}}

parse_weather_code_call ==
    /\ wc_out.kind = "none"
    /\ wc_out' = parse_weather_code(wc_in)
    /\ UNCHANGED <<wc_in, pipe_vars, calc_vars, row_vars>>

WcInit ==
    /\ wc_in \in WeatherCodeInputs
    /\ wc_out = NoResult
    /\ cache = << >>
    /\ op = "none"
    /\ args = NoArgs
    /\ phase = "idle"
    /\ task = << >>
    /\ out = OutUnbound
    /\ written = {}
    /\ saved = {}
    /\ result = NoResult
    /\ CalcIdle

WcNext == parse_weather_code_call

SpecWC == WcInit /\ [][WcNext]_vars

WcAbsentInit ==
    /\ wc_in \in WeatherCodeInputsAbsent
    /\ wc_out = NoResult
    /\ PipeIdle
    /\ CalcIdle

SpecWCAbsent == WcAbsentInit /\ [][WcNext]_vars

(***************************************************************************)
(* utils.T_wet                                                             *)
(*                                                                         *)
(* Temperatures are whole hundredths of a degree, relative humidity whole  *)
(* percent.  Inside the sampled range the float subtraction of 273.15 and  *)
(* the addition that undoes it are both exact, as integer arithmetic is.   *)
(* The arctan expression of the fit is not evaluated: its value is kept as *)
(* the term StullFit(T_dry, RH).                                           *)
(***************************************************************************)
ZeroCelsius == 27315        \* 273.15 K

RHFloorMessage == "RH must be greater than 5% for this approximation"
TDryLimitsMessage == "T_dry must be between -20 and 50 C"
ValidityLineMessage == "T_dry and RH combination is not valid for this approximation"

\* `T_dry < -20` alone, without the upper limit
OutsideTDryLimitsLowerOnly(T_dry) == T_dry < -2000
\* `if T_dry < -20 or T_dry > 50:`
OutsideTDryLimits(T_dry) == T_dry < -2000 \/ T_dry > 5000

\* `if (-75 * T_dry - 31 * RH + 825) < 0:`, both sides times 100
ValidityLineTest(T_dry, RH) == (-75 * T_dry - 3100 * RH + 82500) < 0

\* a value of T_wet in Celsius: the dry-bulb temperature itself, or the fit
Exactly(celsius) == [fit |-> FALSE, celsius |-> celsius, RH |-> 0]
StullFit(T_dry, RH) == [fit |-> TRUE, celsius |-> T_dry, RH |-> RH]

\* the returned Kelvin value together with the local estimated_output
TWetValue(estimated_output, T_wet) ==
    [estimated_output |-> estimated_output,
     fit |-> T_wet.fit,
     \* `T_wet + 273.15`; for the fit, the arguments of the term
     kelvin |-> IF T_wet.fit THEN 0 ELSE T_wet.celsius + ZeroCelsius,
     of |-> IF T_wet.fit THEN <<T_wet.celsius, T_wet.RH>> ELSE << >>]

\* T_wet with the T_dry limits tested before the RH floor
T_wet_limits_first(T_dry_K, RH_in, allow_estimation) ==
    LET T_dry == T_dry_K - ZeroCelsius
        RH == IF RH_in > 99 THEN 99 ELSE RH_in
        estimated_output == RH_in < 5 \/ ValidityLineTest(T_dry, RH)
    IN  IF OutsideTDryLimits(T_dry)
          THEN Raised("ValueError", {TDryLimitsMessage})
        ELSE IF RH_in < 5 /\ ~allow_estimation
          THEN Raised("ValueError", {RHFloorMessage})
        ELSE IF ValidityLineTest(T_dry, RH) /\ ~allow_estimation
          THEN Raised("ValueError", {ValidityLineMessage})
        ELSE Returned(TWetValue(estimated_output,
                                IF estimated_output THEN Exactly(T_dry)
                                                    ELSE StullFit(T_dry, RH)))

T_wet(T_dry_K, RH_in, allow_estimation) ==
    LET T_dry == T_dry_K - ZeroCelsius
        \* `if RH > 99: RH = 99`
        RH == IF RH_in > 99 THEN 99 ELSE RH_in
        estimated_output == RH_in < 5 \/ ValidityLineTest(T_dry, RH)
    IN  IF RH_in < 5 /\ ~allow_estimation
          THEN Raised("ValueError", {RHFloorMessage})
        ELSE IF OutsideTDryLimits(T_dry)
          THEN Raised("ValueError", {TDryLimitsMessage})
        ELSE IF ValidityLineTest(T_dry, RH) /\ ~allow_estimation
          THEN Raised("ValueError", {ValidityLineMessage})
        ELSE Returned(TWetValue(estimated_output,
                                IF estimated_output THEN Exactly(T_dry)
                                                    ELSE StullFit(T_dry, RH)))

\* sampled arguments, on both sides of every limit the code compares with
TDryCelsiusSamples == {-2500, -2001, -2000, -1000, 0, 1100, 2000, 5000, 5001, 6000}
RHSamples == {0, 4, 5, 50, 75, 99, 100}

TWetInputs ==
    [T_dry : {c + ZeroCelsius : c \in TDryCelsiusSamples},
     RH : RHSamples,
     allow_estimation : BOOLEAN]

T_wet_call ==
    /\ tw_in \in TWetInputs
    /\ tw_out.kind = "none"
    /\ tw_out' = T_wet(tw_in.T_dry, tw_in.RH, tw_in.allow_estimation)
    /\ UNCHANGED <<tw_in, sn_in, sn_out, pipe_vars, wc_vars, row_vars>>

TwInit ==
    /\ tw_in \in TWetInputs
    /\ tw_out = NoResult
    /\ sn_in = NoArgs
    /\ sn_out = NoResult
    /\ wc_in = WcIdle
    /\ wc_out = NoResult
    /\ PipeIdle
    /\ RowIdle

TwNext == T_wet_call

SpecTW == TwInit /\ [][TwNext]_vars

(***************************************************************************)
(* AMY._intermediate_calculations: the days since the last snowfall        *)
(*                                                                         *)
(* The table has one row per hour, from 00:00 of day 0 to 23:00 of day     *)
(* MaxDay; a row is named by its hour count.  csnow is the set of rows     *)
(* whose categorical-snow cell is 1.  The columns are computed for one row *)
(* of the table at a time.                                                 *)
(***************************************************************************)
Rows == 0..(24 * (MaxDay + 1) - 1)
date(t) == t \div 24

\* groupby(index.date)["csnow"].transform("sum") > 0
snow_day(csnow, t) == \E u \in csnow : date(u) = date(t)

NaT == [defined |-> FALSE, at |-> 0]
NaN == [defined |-> FALSE, days |-> 0]

\* merge_asof(..., direction="backward") against the rows of the snow days:
\* the latest such row at or before t
last_snow_day(csnow, t) ==
    LET earlier == {u \in Rows : u <= t /\ snow_day(csnow, u)}
    IN  IF earlier = {} THEN NaT
        ELSE [defined |-> TRUE,
              at |-> CHOOSE u \in earlier : \A v \in earlier : v <= u]

\* (index - last_snow_day).dt.days: the whole days of the difference
days_since_last_snowfall(csnow, t) ==
    LET last == last_snow_day(csnow, t)
    IN  IF last.defined THEN [defined |-> TRUE, days |-> (t - last.at) \div 24]
        ELSE NaN

\* Series.clip(lower, upper): a new column, the receiver is left as it is
clip(x, lower, upper) ==
    IF ~x.defined THEN x
    ELSE [x EXCEPT !.days = IF @ < lower THEN lower ELSE IF @ > upper THEN upper ELSE @]

\* One row of the table _intermediate_calculations returns and of the table
\* _amy_data_df builds from it.  The clipped column is computed and dropped:
\* the statement assigns it to nothing.
snowfall_columns(csnow, t) ==
    LET column == days_since_last_snowfall(csnow, t)
        dropped == clip(column, 0, 99)
    IN  [intermediate |-> column, amy |-> column]

\* sampled tables: snow in hours of day 0, day 1 and day 2, or none at all
SnowHourSamples == {0, 12, 23, 24 + 12, 48}
\* sampled rows: the first, a middle and the last two hours of every day
RowSamples == {24 * d + h : d \in 0..MaxDay, h \in {0, 12, 22, 23}}

SnowInputs == [csnow : SUBSET SnowHourSamples, row : RowSamples]

intermediate_calculations_call ==
    /\ sn_in \in SnowInputs
    /\ sn_out.kind = "none"
    /\ sn_out' = Returned(snowfall_columns(sn_in.csnow, sn_in.row))
    /\ UNCHANGED <<sn_in, tw_in, tw_out, pipe_vars, wc_vars, row_vars>>

SnowInit ==
    /\ sn_in \in SnowInputs
    /\ sn_out = NoResult
    /\ tw_in = NoArgs
    /\ tw_out = NoResult
    /\ wc_in = WcIdle
    /\ wc_out = NoResult
    /\ PipeIdle
    /\ RowIdle

SnowNext == intermediate_calculations_call

SpecSnow == SnowInit /\ [][SnowNext]_vars

(***************************************************************************)
(* The formula library: utils.cloud_cover_to_opaque_sky_cover and          *)
(* utils.convert_uv_projection_to_en                                       *)
(*                                                                         *)
(* Cloud covers are whole percent, as the grid provider gives them.  The   *)
(* opaque sky cover is (tcc - 0.5 * clip) / 10; it is kept as the whole    *)
(* number of twentieths of a tenth, (2 * tcc - clip), so that the halving  *)
(* and the division by 10 lose nothing.  Wind components are whole m/s and *)
(* the components of the basis vectors whole hundredths.                   *)
(***************************************************************************)
OpaqueScale == 20           \* a result of the model is 20 times the float the code returns

\* np.clip without the lower limit
np_clip_upper_only(x, lower, upper) == IF x > upper THEN upper ELSE x
\* np.clip(x, lower, upper)
np_clip(x, lower, upper) == IF x < lower THEN lower ELSE IF x > upper THEN upper ELSE x

\* the translucent cover taken from hcc instead of tcc - lcc - mcc
opaque_sky_cover_from_hcc(lcc, mcc, hcc, tcc) == 2 * tcc - np_clip(hcc, 0, 100)

\* tcc_translucent_ratio keeps its default 0.5:
\* 20 * (tcc - clip * 0.5) / 10 = 2 * tcc - clip
cloud_cover_to_opaque_sky_cover(lcc, mcc, hcc, tcc) ==
    LET translucent_cloud_cover_doubled == np_clip(tcc - lcc - mcc, 0, 100)
    IN  2 * tcc - translucent_cloud_cover_doubled

\* the components of the two vectors mixed up: uc read for e, vc for n
convert_uv_projection_to_en_transposed(u, v, uc, vc) ==
    <<u * uc[1] + v * uc[2], u * vc[1] + v * vc[2]>>

\* uc[0], uc[1] of the code are uc[1], uc[2] here
convert_uv_projection_to_en(u, v, uc, vc) ==
    LET e == u * uc[1] + v * vc[1]
        n == u * uc[2] + v * vc[2]
    IN  <<e, n>>

CloudCoverSamples == {0, 10, 30, 50, 100}
WindSamples == {-3, 0, 1, 2}
\* basis vectors, orthonormal pairs and others
BasisSamples == {<<100, 0>>, <<0, 100>>, <<80, 60>>, <<-60, 80>>, <<0, -100>>}

CloudCalls ==
    [fn : {"cloud_cover_to_opaque_sky_cover"},
     lcc : CloudCoverSamples, mcc : CloudCoverSamples,
     hcc : CloudCoverSamples, tcc : CloudCoverSamples]

WindCalls ==
    [fn : {"convert_uv_projection_to_en"},
     u : WindSamples, v : WindSamples, uc : BasisSamples, vc : BasisSamples]

cloud_cover_to_opaque_sky_cover_call ==
    /\ call_in.fn = "cloud_cover_to_opaque_sky_cover"
    /\ call_out.kind = "none"
    /\ call_out' = Returned(cloud_cover_to_opaque_sky_cover(
                               call_in.lcc, call_in.mcc, call_in.hcc, call_in.tcc))
    /\ UNCHANGED <<self, frames, call_in, pipe_vars, wc_vars, calc_vars>>

convert_uv_projection_to_en_call ==
    /\ call_in.fn = "convert_uv_projection_to_en"
    /\ call_out.kind = "none"
    /\ call_out' = Returned(convert_uv_projection_to_en(
                               call_in.u, call_in.v, call_in.uc, call_in.vc))
    /\ UNCHANGED <<self, frames, call_in, pipe_vars, wc_vars, calc_vars>>

\* everything but the call and its outcome, at rest
OthersIdle ==
    /\ PipeIdle
    /\ wc_in = WcIdle
    /\ wc_out = NoResult
    /\ tw_in = NoArgs
    /\ tw_out = NoResult
    /\ sn_in = NoArgs
    /\ sn_out = NoResult

LibInit ==
    /\ call_in \in CloudCalls \cup WindCalls
    /\ call_out = NoResult
    /\ self = NoObject
    /\ frames = << >>
    /\ OthersIdle

LibNext ==
    \/ cloud_cover_to_opaque_sky_cover_call
    \/ convert_uv_projection_to_en_call

SpecLib == LibInit /\ [][LibNext]_vars

(***************************************************************************)
(* The AMY object: AMY.__init__ and AMY.create_amy                         *)
(*                                                                         *)
(* An attribute of the object is a record: not set, or set to a value.     *)
(* Reading an attribute that is not set raises AttributeError.  Latitudes  *)
(* and longitudes are whole hundredths of a degree.  A date argument is    *)
(* None, a str or a datetime; only its type and its year matter here.      *)
(***************************************************************************)
Unset == [set |-> FALSE]
Set(v) == [set |-> TRUE, v |-> v]

\* the object __init__ receives: no attribute has been assigned yet
FreshObject ==
    [exists |-> TRUE, latitude |-> Unset, longitude |-> Unset, name |-> Unset,
     start_date |-> Unset, end_date |-> Unset, site_cache_dir |-> Unset,
     uncached_dates |-> Unset, uc |-> Unset, vc |-> Unset]

HRRR_first_year == 2014

LatitudeMessage == "latitude must be between 21.14 N and 52.6 N for HRRR"
LongitudeMessage == "longitude must be between (225.9 - 299) or (-134.1 - -61) for HRRR"
NoAttribute(a) == Raised("AttributeError", {a})

\* what a call leaves: its outcome and the object
Left(outcome, obj) == [out |-> outcome, self |-> obj]

\* the body of __init__ on an object whose attributes are those of obj
AMY_init_body(obj, latitude, longitude, name) ==
    IF ~obj.latitude.set THEN Left(NoAttribute("latitude"), NoObject)
    ELSE IF ~(2114 <= obj.latitude.v /\ obj.latitude.v <= 5260)
      THEN Left(Raised("AssertionError", {LatitudeMessage}), NoObject)
    ELSE IF ~obj.longitude.set THEN Left(NoAttribute("longitude"), NoObject)
    ELSE IF ~(\/ 22590 <= obj.longitude.v /\ obj.longitude.v <= 29900
              \/ -13410 <= obj.longitude.v /\ obj.longitude.v <= -6100)
      THEN Left(Raised("AssertionError", {LongitudeMessage}), NoObject)
    ELSE \* the transformed longitude is overwritten by the argument
         Left(Returned(<< >>),
              [obj EXCEPT
                 !.latitude = Set(latitude),
                 !.longitude = Set(longitude),
                 !.name = IF name # None THEN Set(name)
                          ELSE Set(<<latitude, longitude>>)])

\* AMY(latitude, longitude, name): __init__ reads self.latitude in its first
\* statement, before any attribute is assigned
__init__(latitude, longitude, name) ==
    AMY_init_body(FreshObject, latitude, longitude, name)

\* a date argument of create_amy
NoDate == [type |-> "NoneType", year |-> 0]
StrDate(y) == [type |-> "str", year |-> y]
Datetime(y) == [type |-> "datetime", year |-> y]
\* datetime.datetime(year, 1, 1) and datetime.datetime(year, 12, 31)
Jan1(y) == [type |-> "datetime", year |-> y, month |-> 1, day |-> 1]
Dec31(y) == [type |-> "datetime", year |-> y, month |-> 12, day |-> 31]

StartWithoutYearMessage == "must provide start_date if year is not provided"
EndWithoutYearMessage == "must provide end_date if year is not provided"
YearAndStartMessage == "cannot provide both year and start_date"
YearAndEndMessage == "cannot provide both year and end_date"
FirstYearMessage == "First year of HRRR data is 2014"
\* self.preprocess(cache_dir): preprocess takes cache_dir, start_date,
\* latitude and longitude
PreprocessMessage ==
    "preprocess() missing 3 required positional arguments: 'start_date', 'latitude', and 'longitude'"

\* create_amy, year = 0 standing for None.  The last assert reads the
\* argument start_date, not self.start_date.
create_amy(obj, year, start_date, end_date) ==
    LET given == year # 0
        \* the object after the if/elif of the validation
        dated == IF given
                   THEN [obj EXCEPT !.start_date = Set(Jan1(year)),
                                    !.end_date = Set(Dec31(year))]
                   ELSE obj
    IN  IF ~given /\ start_date = NoDate
          THEN Left(Raised("AssertionError", {StartWithoutYearMessage}), obj)
        ELSE IF ~given /\ end_date = NoDate
          THEN Left(Raised("AssertionError", {EndWithoutYearMessage}), obj)
        ELSE IF given /\ start_date # NoDate
          THEN Left(Raised("AssertionError", {YearAndStartMessage}), obj)
        ELSE IF given /\ end_date # NoDate
          THEN Left(Raised("AssertionError", {YearAndEndMessage}), obj)
        ELSE IF start_date.type # "datetime"
          THEN Left(NoAttribute("year"), dated)
        ELSE IF ~(start_date.year >= HRRR_first_year)
          THEN Left(Raised("AssertionError", {FirstYearMessage}), dated)
        ELSE Left(Raised("TypeError", {PreprocessMessage}), dated)

LatitudeSamples == {2113, 2114, 4000, 5260, 5261}
LongitudeSamples == {22589, 22590, 25500, 29900, 29901,
                     -13411, -13410, -10500, -6100, -6099, 0}
YearSamples == {0, 2013, 2014, 2022}
StartDateSamples == {NoDate, StrDate(2022), Datetime(2013), Datetime(2022)}
EndDateSamples == {NoDate, StrDate(2022), Datetime(2022)}

InitCalls ==
    [fn : {"__init__"}, latitude : LatitudeSamples, longitude : LongitudeSamples,
     name : {None, "site"}]
CreateCalls ==
    [fn : {"create_amy"}, year : YearSamples, start_date : StartDateSamples,
     end_date : EndDateSamples]

\* an object as a completed __init__ would leave it
AnObject ==
    [FreshObject EXCEPT !.latitude = Set(4000), !.longitude = Set(25500),
                        !.name = Set("site")]

__init___call ==
    /\ call_in.fn = "__init__"
    /\ call_out.kind = "none"
    /\ LET left == __init__(call_in.latitude, call_in.longitude, call_in.name)
       IN  call_out' = left.out /\ self' = left.self
    /\ UNCHANGED <<frames, call_in, pipe_vars, wc_vars, calc_vars>>

\* no branch of create_amy gets as far as the cache directory
create_amy_call ==
    /\ call_in.fn = "create_amy"
    /\ call_out.kind = "none"
    /\ LET left == create_amy(self, call_in.year, call_in.start_date, call_in.end_date)
       IN  call_out' = left.out /\ self' = left.self
    /\ UNCHANGED <<frames, call_in, pipe_vars, wc_vars, calc_vars>>

AMYInit ==
    /\ \/ call_in \in InitCalls /\ self = NoObject
       \/ call_in \in CreateCalls /\ self = AnObject
    /\ call_out = NoResult
    /\ frames = << >>
    /\ OthersIdle

AMYNext ==
    \/ __init___call
    \/ create_amy_call

SpecAMY == AMYInit /\ [][AMYNext]_vars

(***************************************************************************)
(* The derivation of one row: AMY.preprocess,                              *)
(* AMY._intermediate_calculations and AMY._amy_data_df                     *)
(*                                                                         *)
(* A table is held by reference: frames[r] is the table with reference r,  *)
(* a function from column names to the cells of its one row.  frames[1] is *)
(* the assembled raw table.  Radiation is whole W/m2 (the direct beam an   *)
(* even number, so that half of it is whole), sky cover is kept in the     *)
(* unit of OpaqueScale, visibility whole metres, precipitation and gust    *)
(* tenths.  The zenith angle is what pvlib returns for the row: 0 or 60    *)
(* degrees, with cosine 1 and 1/2.  Columns whose formula is               *)
(* transcendental are written as the term that names them, and the table   *)
(* pd.merge_asof returns keeps the reference of the copy it replaces.      *)
(***************************************************************************)
\* DataFrame.copy(): a new table with the same cells
DataFrame_copy(fr, ref) == [frames |-> Append(fr, fr[ref]), ref |-> Len(fr) + 1]

\* df[name] = value, for every name of cols, on the table with reference ref
setitems(fr, ref, cols) ==
    [fr EXCEPT ![ref] = [c \in DOMAIN fr[ref] \cup DOMAIN cols |->
                            IF c \in DOMAIN cols THEN cols[c] ELSE fr[ref][c]]]

Term(name) == [term |-> name]

\* 2 * np.cos(np.deg2rad(zenith))
TwiceCos(zenith) == IF zenith = 0 THEN 2 ELSE 1

\* utils.solar_irradiance_to_lux
solar_irradiance_to_lux(G) == G * 122

\* the cell of "Days Since Last Snowfall [Days]" in a table of one row
OneRowSnowfall(csnow) ==
    snowfall_columns(IF csnow THEN {0} ELSE {}, 0).intermediate

\* _intermediate_calculations(cache_df, latitude, longitude) on object obj:
\* the tables it leaves and its outcome
_intermediate_calculations(fr, obj, cache_df, zenith) ==
    LET copied == DataFrame_copy(fr, cache_df)
        intermediate_df == copied.ref
        row == copied.frames[intermediate_df]
        opaque_sky_cover ==
            cloud_cover_to_opaque_sky_cover(row.lcc, row.mcc, row.hcc, row.tcc)
        ghi == (row.vbdsf * TwiceCos(zenith)) \div 2 + row.vddsf
        radiation ==
            setitems(copied.frames, intermediate_df,
                [zenith |-> zenith,
                 opaque_sky_cover |-> opaque_sky_cover,
                 extraterrestrial_normal_radiation |->
                     Term("extraterrestrial_normal_radiation"),
                 extraterrestrial_horizontal_irradiance |->
                     Term("extraterrestrial_horizontal_irradiance"),
                 horizontal_ir |-> Term("horizontal_ir"),
                 ghi |-> ghi,
                 global_illuminance |-> solar_irradiance_to_lux(ghi),
                 normal_illuminance |-> solar_irradiance_to_lux(row.vbdsf),
                 horizontal_illuminance |-> solar_irradiance_to_lux(row.vddsf),
                 zenith_illuminance |->
                     solar_irradiance_to_lux((row.vbdsf * TwiceCos(zenith)) \div 2)])
        wind == convert_uv_projection_to_en(row.u10, row.v10, obj.uc.v, obj.vc.v)
        rest ==
            setitems(radiation, intermediate_df,
                [wind_E |-> wind[1],
                 wind_N |-> wind[2],
                 wind_direction |-> Term("wind direction"),
                 wind_speed |-> Term("wind speed"),
                 aod |-> row.unknown,
                 albedo |-> Term("albedo"),
                 snow_day |-> row.csnow,
                 days_since_last_snowfall |-> OneRowSnowfall(row.csnow)])
    IN  IF ~obj.uc.set THEN [frames |-> radiation, out |-> NoAttribute("uc")]
        ELSE IF ~obj.vc.set THEN [frames |-> radiation, out |-> NoAttribute("vc")]
        ELSE [frames |-> rest, out |-> Returned(intermediate_df)]

\* the arguments the row lambda of _amy_data_df gives parse_weather_code:
\* the cells as they are, the visibility among them
weather_code_arguments(x) ==
    [accumulated_precipitation |-> x.tp,
     freezing_rain |-> x.cfrzr,
     ice_pellets |-> x.cicep,
     lightning |-> x.ltng,
     rain |-> x.crain,
     snow |-> x.csnow,
     pct_frozen_precipitation |-> x.cpofp,
     \* metres, in the encoder's tenths
     visibility |-> 10 * x.vis,
     wind_gust_speed |-> x.gust,
     smoke |-> x.tc_mdens,
     absent |-> AllPresent]

\* _amy_data_df(df): the tables it leaves and its outcome
_amy_data_df(fr, df) ==
    LET x == fr[df]
        code == parse_weather_code(weather_code_arguments(x))
        amy_df ==
            [global_horizontal_radiation |-> x.ghi,
             direct_normal_radiation |-> x.vddsf,
             diffuse_horizontal_radiation |-> x.vbdsf,
             global_horizontal_illuminance |-> x.global_illuminance,
             direct_normal_illuminance |-> x.normal_illuminance,
             diffuse_horizontal_illuminance |-> x.horizontal_illuminance,
             zenith_luminance |-> x.zenith_illuminance,
             \* df["tcc"].values / 10, in the unit of OpaqueScale
             total_sky_cover |-> (OpaqueScale * x.tcc) \div 10,
             opaque_sky_cover |-> x.opaque_sky_cover,
             \* df["vis"].values / 1000, in thousandths of a km
             visibility_km |-> x.vis,
             present_weather_codes |-> code.value,
             aerosol_optical_depth |-> x.aod,
             days_since_last_snowfall |-> x.days_since_last_snowfall,
             liquid_precipitation_depth |-> x.tp]
    IN  IF code.kind = "raise"
          THEN [frames |-> fr, out |-> code]
          ELSE [frames |-> Append(fr, amy_df), out |-> Returned(Len(fr) + 1)]

\* preprocess(cache_dir, start_date, latitude, longitude): the scan is called
\* with cache_dir alone and raises before the basis is assigned
ScanMessage ==
    "_identify_uncached_dates() missing 2 required positional arguments: 'start_date' and 'end_date'"
preprocess(obj) ==
    Left(Raised("TypeError", {ScanMessage}),
         [obj EXCEPT !.site_cache_dir = Set("cache_dir/site")])

RawRows ==
    [vbdsf : {0, 200}, vddsf : {100},
     lcc : {0, 30, 100}, mcc : {0, 50}, hcc : {0, 50}, tcc : {0, 30, 100},
     u10 : {2}, v10 : {-3}, unknown : {0},
     vis : {300, 800, 5000}, tp : {0, 1}, crain : {TRUE}, csnow : {FALSE},
     cicep : {FALSE}, cfrzr : {FALSE}, ltng : {FALSE}, cpofp : {-50, 50},
     gust : {100}, tc_mdens : {Sci(0, 0)}]
ZenithSamples == {0, 60}

RowCalls ==
    [fn : {"post_process_cached_data"}, cache_df : RawRows, zenith : ZenithSamples,
     uc : {Unset, Set(<<80, 60>>)}, vc : {Set(<<-60, 80>>)}]

preprocess_call ==
    /\ call_in.fn = "post_process_cached_data"
    /\ Len(frames) = 1
    /\ ~self.site_cache_dir.set
    /\ LET left == preprocess(self)
       IN  call_out' = left.out /\ self' = left.self
    /\ UNCHANGED <<frames, call_in, pipe_vars, wc_vars, calc_vars>>

_intermediate_calculations_call ==
    /\ call_in.fn = "post_process_cached_data"
    /\ Len(frames) = 1
    /\ LET left == _intermediate_calculations(frames, self, 1, call_in.zenith)
       IN  call_out' = left.out /\ frames' = left.frames
    /\ UNCHANGED <<self, call_in, pipe_vars, wc_vars, calc_vars>>

_amy_data_df_call ==
    /\ call_in.fn = "post_process_cached_data"
    /\ Len(frames) = 2
    /\ call_out = Returned(2)
    /\ LET left == _amy_data_df(frames, 2)
       IN  call_out' = left.out /\ frames' = left.frames
    /\ UNCHANGED <<self, call_in, pipe_vars, wc_vars, calc_vars>>

RowInit ==
    /\ call_in \in RowCalls
    /\ call_out = NoResult
    /\ frames = <<call_in.cache_df>>
    /\ self = [AnObject EXCEPT !.uc = call_in.uc, !.vc = call_in.vc]
    /\ OthersIdle

RowNext ==
    \/ preprocess_call
    \/ _intermediate_calculations_call
    \/ _amy_data_df_call

SpecRow == RowInit /\ [][RowNext]_vars

(***************************************************************************)
(* Claims about the fetch pool, the assembler and the scan (under Spec).   *)
(***************************************************************************)
FetchDone == phase = "done" /\ op = "get_grib_data"
CombineDone == phase = "done" /\ op = "combine_cache_files"
ScanDone == phase = "done" /\ op = "_identify_uncached_dates"

Grid == date_range(args.start, args.end, args.freq)
AbsentHours == {t \in Range(Grid) : cache_file_path(t) \notin DOMAIN cache}

\* C1: whatever subset of the requested hours fails to fetch, get_grib_data
\* does not raise, has saved the file of every hour whose fetch succeeded,
\* and returns exactly the list of the hours that failed.
C1_FailuresReturnedNotRaised ==
    FetchDone =>
        /\ result.kind = "return"
        /\ LET Failed(t) == t \in args.failing
           IN  result.value = SelectSeq(args.dates, Failed)
        /\ \A t \in Range(args.dates) \ args.failing : save_path(t) \in written

\* C2: when cache files of the grid are absent, combine_cache_files fails with
\* an error naming exactly the absent ones, all of them and only them, and
\* returns no table.
C2_ErrorNamesAllMissing ==
    (CombineDone /\ AbsentHours # {}) =>
        /\ result.kind = "raise"
        /\ result.names = {cache_file_path(t) : t \in AbsentHours}

\* C3: with a file for every timestamp of a grid, the table returned by
\* combine_cache_files has one row per grid timestamp, its index is the grid
\* in ascending order without duplicates or gaps, and the row labelled t
\* holds the values of the file keyed by t; for a grid that is not empty the
\* call does return a table.
C3_CompleteCacheAssembled ==
    (CombineDone /\ AbsentHours = {}) =>
        /\ Grid # << >> => result.kind = "return"
        /\ result.kind = "return" =>
              /\ Len(result.value) = Len(Grid)
              /\ \A i \in DOMAIN Grid : result.value[i].index = Grid[i]
              /\ \A i \in DOMAIN Grid : \A j \in DOMAIN Grid :
                    i < j => result.value[i].index < result.value[j].index
              /\ \A i \in DOMAIN Grid :
                    result.value[i].data = cache[cache_file_path(Grid[i])].data

\* C3 witness: a table of at least two rows assembled from a complete cache
\* that holds files saved by get_grib_data
C3_Witness ==
    /\ CombineDone
    /\ AbsentHours = {}
    /\ Len(Grid) >= 2
    /\ result.kind = "return"
    /\ \E t \in Range(Grid) : cache_file_path(t) \in saved
    /\ \E i \in DOMAIN Grid : \E j \in DOMAIN Grid :
          result.value[i].data # result.value[j].data

\* C4: combine_cache_files returns a table only if every record it read is
\* stamped with the grid timestamp of the file it came from; otherwise the
\* assembly fails.
C4_IndexVerifiedAgainstGrid ==
    (CombineDone /\ result.kind = "return") =>
        \A t \in Range(Grid) : cache[cache_file_path(t)].stamp = t

\* C5: an hour whose cache file get_grib_data has saved is not listed by a
\* later _identify_uncached_dates over a period containing it.
C5_SavedHourNotListed ==
    ScanDone => \A t \in Range(result.value) : save_path(t) \notin saved

(***************************************************************************)
(* Claims about the weather-code encoder (under SpecWC).                   *)
(***************************************************************************)
Encoded == wc_out.kind # "none"
Tier(p) == IF p < 25 THEN 0 ELSE IF p < 76 THEN 1 ELSE 2

\* C6: for every combination of inputs parse_weather_code returns a string
\* of exactly 9 characters, each a digit '0'..'9', and never raises.
C6_NineDigitsNeverRaises ==
    Encoded =>
        /\ wc_out.kind = "return"
        /\ Len(wc_out.value) = 9
        /\ \A i \in DOMAIN wc_out.value : wc_out.value[i] \in 0..9

\* C7: with no accumulated precipitation, no lightning and no smoke the
\* result is exactly "999999999", whatever the other inputs are.
C7_NothingObservedAllNines ==
    (/\ Encoded
     /\ wc_in.accumulated_precipitation = 0
     /\ ~wc_in.lightning
     /\ wc_in.smoke.m = 0)
    => wc_out = Returned(<<9, 9, 9, 9, 9, 9, 9, 9, 9>>)

\* C7 witness: such a call with every phase flag set and a strong gust
C7_Witness ==
    /\ Encoded
    /\ wc_in.accumulated_precipitation = 0
    /\ ~wc_in.lightning
    /\ wc_in.smoke.m = 0
    /\ wc_in.rain /\ wc_in.snow /\ wc_in.ice_pellets /\ wc_in.freezing_rain
    /\ wc_in.wind_gust_speed > 257
    /\ wc_in.pct_frozen_precipitation > 0
    /\ wc_out.kind = "return"

\* C8: the first character is '1' with lightning and gust > 25.7 m/s, '0'
\* with lightning and gust <= 25.7 m/s, '9' without lightning, whatever the
\* other inputs are, and the other eight characters are those of the same
\* call without lightning.
C8_ThunderstormDigit ==
    Encoded =>
        /\ wc_out.kind = "return"
        /\ wc_out.value[1] =
              (IF wc_in.lightning
                 THEN IF wc_in.wind_gust_speed > 257 THEN 1 ELSE 0
                 ELSE 9)
        /\ LET calm == parse_weather_code([wc_in EXCEPT !.lightning = FALSE])
           IN  /\ calm.kind = "return"
               /\ \A i \in 2..9 : wc_out.value[i] = calm.value[i]

\* C8, restricted to the calls that return a string: there the first
\* character and the other eight are as the claim says
C8_ThunderstormDigitWhenReturned ==
    (Encoded /\ wc_out.kind = "return") =>
        /\ wc_out.value[1] =
              (IF wc_in.lightning
                 THEN IF wc_in.wind_gust_speed > 257 THEN 1 ELSE 0
                 ELSE 9)
        /\ LET calm == parse_weather_code([wc_in EXCEPT !.lightning = FALSE])
           IN  /\ calm.kind = "return"
               /\ \A i \in 2..9 : wc_out.value[i] = calm.value[i]

\* C9: the second character differs from '9' exactly when precipitation > 0
\* and the rain flag is set; it is then '0'/'1'/'2' for precipitation < 2.5,
\* in [2.5, 7.6), >= 7.6 mm without freezing rain and '6'/'7'/'8' with it.
C9_RainIntensityDigit ==
    Encoded =>
        /\ wc_out.kind = "return"
        /\ LET rainy == wc_in.accumulated_precipitation > 0 /\ wc_in.rain
           IN  wc_out.value[2] =
                 (IF rainy
                    THEN Tier(wc_in.accumulated_precipitation)
                           + (IF wc_in.freezing_rain THEN 6 ELSE 0)
                    ELSE 9)

\* C9, restricted to the calls that return a string
C9_RainIntensityDigitWhenReturned ==
    (Encoded /\ wc_out.kind = "return") =>
        LET rainy == wc_in.accumulated_precipitation > 0 /\ wc_in.rain
        IN  wc_out.value[2] =
              (IF rainy
                 THEN Tier(wc_in.accumulated_precipitation)
                        + (IF wc_in.freezing_rain THEN 6 ELSE 0)
                 ELSE 9)

\* C10: the eighth character is written whenever smoke density exceeds
\* 1e-4 kg/m3, '1' above 5e-4 and '0' otherwise, and is '9' for a density of
\* at most 1e-4; a density of 1e-3 gives '1'.
C10_SmokeHazeDigit ==
    Encoded =>
        /\ wc_out.kind = "return"
        /\ wc_out.value[8] =
              (IF SciGreater(wc_in.smoke, Sci(1, -4))
                 THEN IF SciGreater(wc_in.smoke, Sci(5, -4)) THEN 1 ELSE 0
                 ELSE 9)

\* C10, what the code does instead: below the gate of 1e5 kg/m3 the eighth
\* character is '9', at any density the samples cover
C10_EighthCharacterBelowCodeGate ==
    (Encoded /\ ~SciGreater(wc_in.smoke, Sci(1, 5))) =>
        wc_out.kind = "return" /\ wc_out.value[8] = 9

EncodedString == Encoded /\ wc_out.kind = "return"
Precipitating == wc_in.accumulated_precipitation > 0

\* C11 as stated: in every string the encoder returns, for every input, the
\* seventh (fog/dust) and the ninth (ice pellets) character are both '9'.
C11_ReservedDigitsStayNine ==
    EncodedString => wc_out.value[7] = 9 /\ wc_out.value[9] = 9

\* C11 amended: in every string the encoder returns the seventh character is
\* '9'; the ninth is '9' unless precipitation is positive and the ice-pellet
\* flag is set, and is then the sleet digit '0', '1' or '2' of the 2.5 mm and
\* 7.6 mm tiers.
C11_SeventhReservedNinthSleet ==
    EncodedString =>
        /\ wc_out.value[7] = 9
        /\ wc_out.value[9] =
              (IF Precipitating /\ wc_in.ice_pellets
                 THEN Tier(wc_in.accumulated_precipitation)
                 ELSE 9)

C11_Witness ==
    /\ EncodedString
    /\ Precipitating /\ wc_in.ice_pellets
    /\ wc_in.accumulated_precipitation >= 76
    /\ wc_out.value[9] = 2

\* the drizzle code of the third character
DrizzleCode(visibility, pct_frozen) ==
    (IF pct_frozen <= 0 THEN 3 ELSE 6)
      + (IF visibility > 10 THEN 0 ELSE IF visibility > 5 THEN 1 ELSE 2)

\* C13: when the rain digits are written and the gust exceeds 15 m/s the
\* third character is the rain-squall code ('0' below 2.5 mm, else '1'); only
\* for a gust of at most 15 m/s is it the drizzle code chosen by visibility
\* (> 1, > 0.5, else) and the percent-frozen flag ('3','4','5' / '6','7','8').
C13_SquallOrDrizzleDigit ==
    (EncodedString /\ Precipitating /\ wc_in.rain) =>
        wc_out.value[3] =
          (IF wc_in.wind_gust_speed > 150
             THEN IF wc_in.accumulated_precipitation < 25 THEN 0 ELSE 1
             ELSE DrizzleCode(wc_in.visibility, wc_in.pct_frozen_precipitation))

\* C13, what the code does instead: the third character is the drizzle code
\* at every gust speed
C13_DrizzleDigitAtEveryGust ==
    (EncodedString /\ Precipitating /\ wc_in.rain) =>
        wc_out.value[3] = DrizzleCode(wc_in.visibility, wc_in.pct_frozen_precipitation)

\* the fourth character the encoder gives the same call at another amount
FourthAt(p) ==
    parse_weather_code([wc_in EXCEPT !.accumulated_precipitation = p]).value[4]

\* C14 as stated: the fourth and fifth character differ from '9' exactly when
\* precipitation is positive and the snow flag is set; the fourth then follows
\* the 2.5 mm / 7.6 mm tiers in the snow branch ('0','1','2') and in the
\* ice-pellet branch (amounts of different tiers get different characters);
\* the fifth is '6'/'7' for ice-pellet showers, '3','4','5' by tier for snow
\* squalls (gust > 15 m/s, no ice pellets) and '0','1','2' by tier for snow.
C14_SnowIceDigitsTieredInBothBranches ==
    EncodedString =>
        LET p == wc_in.accumulated_precipitation
            snowy == Precipitating /\ wc_in.snow
        IN  /\ (wc_out.value[4] # 9) <=> snowy
            /\ (wc_out.value[5] # 9) <=> snowy
            /\ (snowy /\ ~wc_in.ice_pellets) => wc_out.value[4] = Tier(p)
            /\ (snowy /\ wc_in.ice_pellets) =>
                  \A q \in PrecipSamples :
                     (q > 0 /\ Tier(q) # Tier(p)) => FourthAt(q) # wc_out.value[4]
            /\ snowy =>
                  wc_out.value[5] =
                    (IF wc_in.ice_pellets THEN (IF p < 25 THEN 6 ELSE 7)
                     ELSE IF wc_in.wind_gust_speed > 150 THEN 3 + Tier(p)
                     ELSE Tier(p))

\* C14 amended: in every string the encoder returns the fourth and fifth
\* character differ from '9' exactly when precipitation is positive and the
\* snow flag is set; the fourth is then '0','1','2' by the 2.5 mm / 7.6 mm
\* tiers without ice pellets and '7' at every amount with ice pellets; the
\* fifth is '6' below 2.5 mm and '7' from 2.5 mm on for ice-pellet showers,
\* '3','4','5' by tier for snow squalls and '0','1','2' by tier for snow.
C14_SnowDigitsTieredIceConstant ==
    EncodedString =>
        LET p == wc_in.accumulated_precipitation
            snowy == Precipitating /\ wc_in.snow
        IN  /\ (wc_out.value[4] # 9) <=> snowy
            /\ (wc_out.value[5] # 9) <=> snowy
            /\ snowy =>
                  wc_out.value[4] = (IF wc_in.ice_pellets THEN 7 ELSE Tier(p))
            /\ snowy =>
                  wc_out.value[5] =
                    (IF wc_in.ice_pellets THEN (IF p < 25 THEN 6 ELSE 7)
                     ELSE IF wc_in.wind_gust_speed > 150 THEN 3 + Tier(p)
                     ELSE Tier(p))

C14_Witness ==
    /\ EncodedString
    /\ Precipitating /\ wc_in.snow /\ wc_in.ice_pellets
    /\ wc_in.accumulated_precipitation < 25
    /\ wc_out.value[4] = 7
    /\ wc_out.value[5] = 6

\* C15 as stated: the sixth character is written whenever the ice-pellet flag
\* is set and only then, with the value of the tier function of digit 4's ice
\* branch: with snow and ice pellets both set and positive precipitation the
\* sixth character equals the fourth.
C15_SleetDigitEqualsFourth ==
    EncodedString =>
        /\ (wc_out.value[6] # 9) <=> wc_in.ice_pellets
        /\ (Precipitating /\ wc_in.snow /\ wc_in.ice_pellets) =>
              wc_out.value[6] = wc_out.value[4]

\* C15 amended: in every string the encoder returns the sixth character is
\* written exactly when the ice-pellet flag is set and precipitation is
\* positive; it is then '0','1','2' by the 2.5 mm / 7.6 mm tiers (the tiers of
\* digit 4's snow branch) and the ninth character carries the same value;
\* with snow and ice pellets both set the fourth character is '7', so the
\* sixth differs from it.
C15_SleetDigitByTier ==
    EncodedString =>
        /\ wc_out.value[6] =
              (IF Precipitating /\ wc_in.ice_pellets
                 THEN Tier(wc_in.accumulated_precipitation)
                 ELSE 9)
        /\ wc_out.value[9] = wc_out.value[6]
        /\ (Precipitating /\ wc_in.snow /\ wc_in.ice_pellets) =>
              wc_out.value[4] = 7 /\ wc_out.value[6] # wc_out.value[4]

C15_Witness ==
    /\ EncodedString
    /\ Precipitating /\ wc_in.snow /\ wc_in.ice_pellets
    /\ wc_out.value[6] = 1
    /\ wc_out.value[4] = 7

(***************************************************************************)
(* Claim about arguments without a value (under SpecWCAbsent).             *)
(***************************************************************************)
\* the characters an argument governs
Governed(f) ==
    CASE f = "lightning" -> {1}
      [] f = "rain" -> {2, 3}
      [] f = "snow" -> {4, 5}
      [] f = "ice_pellets" -> {6, 9}
      [] f = "smoke" -> {8}
      [] f = "accumulated_precipitation" -> {2, 3, 4, 5, 6, 9}

\* C12: when a governing argument (precipitation, lightning, rain, snow, ice
\* pellets, smoke) is None or NaN the call does not raise and the characters
\* that argument governs stay '9'.
C12_AbsentInputLeavesNines ==
    Encoded =>
        /\ wc_out.kind = "return"
        /\ \A i \in Governed(wc_in.absent.field) : wc_out.value[i] = 9

\* C12, the part the code keeps: a flag that is None, and an amount or a
\* density that is NaN, write nothing and raise nothing
C12_NoneFlagOrNaNAmountLeavesNines ==
    (/\ Encoded
     /\ IF wc_in.absent.field \in {"accumulated_precipitation", "smoke"}
           THEN wc_in.absent.as = "NaN"
           ELSE wc_in.absent.as = "None") =>
        /\ wc_out.kind = "return"
        /\ \A i \in Governed(wc_in.absent.field) : wc_out.value[i] = 9

(***************************************************************************)
(* Claims about the days since the last snowfall (under SpecSnow).         *)
(***************************************************************************)
SnowComputed == sn_out.kind = "return"
SnowDates == {date(u) : u \in sn_in.csnow}

\* C16: when a single snow day D is followed by snow-free days, every hourly
\* row of calendar day D+k has the value k in the days-since-last-snowfall
\* column, for k = 0..5.
C16_CalendarDaysSinceSnowDay ==
    SnowComputed =>
        \A D \in SnowDates :
            (SnowDates = {D} /\ date(sn_in.row) - D \in 0..5) =>
                /\ sn_out.value.intermediate.defined
                /\ sn_out.value.intermediate.days = date(sn_in.row) - D

\* C16, what the code does instead: after the snow day the value is the
\* whole days since 23:00 of the snow day, k - 1 up to 22:00 of day D+k
C16_WholeDaysSinceLastRowOfSnowDay ==
    SnowComputed =>
        \A D \in SnowDates :
            (SnowDates = {D} /\ date(sn_in.row) > D) =>
                /\ sn_out.value.intermediate.defined
                /\ sn_out.value.intermediate.days =
                      (IF sn_in.row % 24 = 23 THEN date(sn_in.row) - D
                                               ELSE date(sn_in.row) - D - 1)

\* C17: every defined value of the days-since-last-snowfall column lies in
\* 0..99, in the table _intermediate_calculations returns and in the output
\* column; a row more than 99 days after the last snow day reads 99.
C17_DaysSinceSnowfallClipped ==
    SnowComputed =>
        /\ sn_out.value.intermediate.defined =>
              sn_out.value.intermediate.days \in 0..99
        /\ sn_out.value.amy.defined => sn_out.value.amy.days \in 0..99

(***************************************************************************)
(* Claims about the wet-bulb temperature (under SpecTW).                   *)
(***************************************************************************)
TWetDone == tw_out.kind # "none"
TDryCelsius == tw_in.T_dry - ZeroCelsius

\* C18: for every dry-bulb temperature whose Celsius value is outside
\* [-20, 50], every relative humidity and both values of allow_estimation,
\* T_wet fails with a domain error and returns no value.
C18_OutsideLimitsRaises ==
    (TWetDone /\ (TDryCelsius < -2000 \/ TDryCelsius > 5000)) =>
        tw_out.kind = "raise" /\ tw_out.exc = "ValueError"

C18_Witness ==
    /\ TWetDone
    /\ TDryCelsius = 6000
    /\ tw_in.allow_estimation
    /\ tw_in.RH = 50
    /\ tw_out = Raised("ValueError", {TDryLimitsMessage})

\* C19: for a dry-bulb temperature of 11 C to 50 C (293.15 K among them) and
\* a relative humidity of 5 to 99 percent, with estimation allowed, the
\* estimated flag is not set and the result is the value of the fit, not the
\* dry-bulb temperature.
C19_ValidRegionUsesFit ==
    (/\ TWetDone
     /\ tw_in.allow_estimation
     /\ TDryCelsius \in 1100..5000
     /\ tw_in.RH \in 5..99) =>
        /\ tw_out.kind = "return"
        /\ ~tw_out.value.estimated_output
        /\ tw_out.value.fit
        /\ tw_out.value.kelvin # tw_in.T_dry

\* C19, what the code does instead: in that region the estimate is taken,
\* and without allow_estimation the call raises
C19_ValidRegionIsEstimated ==
    (/\ TWetDone
     /\ TDryCelsius \in 1100..5000
     /\ tw_in.RH \in 5..99) =>
        IF tw_in.allow_estimation
          THEN tw_out = Returned(TWetValue(TRUE, Exactly(TDryCelsius)))
          ELSE tw_out = Raised("ValueError", {ValidityLineMessage})

\* C20: for a relative humidity below 5 and a dry-bulb temperature within
\* [-20, 50] C, T_wet fails with a domain error when allow_estimation is
\* false and returns exactly the dry-bulb input in Kelvin when it is true;
\* the humidity floor is tested before the T_dry limits and before the
\* validity line, so without allow_estimation its error is the one raised at
\* every temperature.
C20_RHFloorFirst ==
    (TWetDone /\ tw_in.RH < 5) =>
        /\ ~tw_in.allow_estimation =>
              tw_out = Raised("ValueError", {RHFloorMessage})
        /\ (tw_in.allow_estimation /\ TDryCelsius \in -2000..5000) =>
              /\ tw_out.kind = "return"
              /\ tw_out.value.estimated_output
              /\ ~tw_out.value.fit
              /\ tw_out.value.kelvin = tw_in.T_dry

C20_Witness ==
    /\ TWetDone
    /\ tw_in.RH = 4
    /\ ~tw_in.allow_estimation
    /\ TDryCelsius = 6000
    /\ tw_out = Raised("ValueError", {RHFloorMessage})

(***************************************************************************)
(* Claims about the formula library (under SpecLib).                       *)
(***************************************************************************)
CloudDone ==
    call_in.fn = "cloud_cover_to_opaque_sky_cover" /\ call_out.kind = "return"
WindDone ==
    call_in.fn = "convert_uv_projection_to_en" /\ call_out.kind = "return"
ValidCloudCover == call_in.lcc + call_in.mcc <= call_in.tcc /\ call_in.tcc <= 100

Decompose(u, v) == convert_uv_projection_to_en(u, v, call_in.uc, call_in.vc)

\* C22: for every pair of basis vectors, (u, v) = (1, 0) gives
\* (east, north) = uc and (0, 1) gives vc; in general
\* east = u*uc[0] + v*vc[0] and north = u*uc[1] + v*vc[1], linear in (u, v).
C22_WindDecompositionRoundTrips ==
    WindDone =>
        /\ (call_in.u = 1 /\ call_in.v = 0) => call_out.value = call_in.uc
        /\ (call_in.u = 0 /\ call_in.v = 1) => call_out.value = call_in.vc
        /\ call_out.value[1] = call_in.u * call_in.uc[1] + call_in.v * call_in.vc[1]
        /\ call_out.value[2] = call_in.u * call_in.uc[2] + call_in.v * call_in.vc[2]
        /\ \A u2 \in WindSamples, v2 \in WindSamples :
              LET sum == Decompose(call_in.u + u2, call_in.v + v2)
                  other == Decompose(u2, v2)
              IN  /\ sum[1] = call_out.value[1] + other[1]
                  /\ sum[2] = call_out.value[2] + other[2]
        /\ \A k \in WindSamples :
              LET scaled == Decompose(k * call_in.u, k * call_in.v)
              IN  scaled = <<k * call_out.value[1], k * call_out.value[2]>>

C22_Witness ==
    /\ WindDone
    /\ call_in.u = 1 /\ call_in.v = 0
    /\ call_in.uc = <<80, 60>> /\ call_in.vc = <<-60, 80>>
    /\ call_out.value = <<80, 60>>

(***************************************************************************)
(* Claims about the AMY object (under SpecAMY).                            *)
(***************************************************************************)
Constructed == call_in.fn = "__init__" /\ call_out.kind # "none"
CreateDone == call_in.fn = "create_amy" /\ call_out.kind # "none"

\* C23: with latitude in [21.14, 52.6] and longitude in [225.9, 299] or
\* [-134.1, -61] the constructor succeeds and the object stores the latitude
\* and the longitude in 0-360 form (360 + lon for a negative lon); outside
\* those ranges it fails with the documented assertion error and no object
\* is produced.
C23_ConstructorValidatesAndStores ==
    Constructed =>
        LET lat == call_in.latitude
            lon == call_in.longitude
            valid == /\ 2114 <= lat /\ lat <= 5260
                     /\ \/ 22590 <= lon /\ lon <= 29900
                        \/ -13410 <= lon /\ lon <= -6100
        IN  IF valid
              THEN /\ call_out.kind = "return"
                   /\ self.exists
                   /\ self.latitude = Set(lat)
                   /\ self.longitude = Set(IF lon < 0 THEN 36000 + lon ELSE lon)
              ELSE /\ call_out.kind = "raise"
                   /\ call_out.exc = "AssertionError"
                   /\ call_out.names \subseteq {LatitudeMessage, LongitudeMessage}
                   /\ self = NoObject

\* C23, what the code does instead: every construction ends in
\* AttributeError and leaves no object
C23_ConstructorAlwaysRaises ==
    Constructed => call_out = NoAttribute("latitude") /\ self = NoObject

\* C24: with year only, create_amy passes validation and uses 1 January to
\* 31 December of that year as the period; with neither year nor start_date,
\* or with year together with start_date or end_date, it fails with the
\* documented assertion error before any preprocessing, fetching or file
\* writing.
C24_CreateAmyValidation ==
    CreateDone =>
        LET given == call_in.year # 0
            start == call_in.start_date # NoDate
            end == call_in.end_date # NoDate
        IN  /\ (given /\ ~start /\ ~end /\ call_in.year >= HRRR_first_year) =>
                  /\ call_out.exc \notin {"AssertionError", "AttributeError"}
                  /\ self.start_date = Set(Jan1(call_in.year))
                  /\ self.end_date = Set(Dec31(call_in.year))
            /\ ((~given /\ ~start) \/ (given /\ (start \/ end))) =>
                  /\ call_out.kind = "raise"
                  /\ call_out.exc = "AssertionError"
                  /\ call_out.names \subseteq
                        {StartWithoutYearMessage, YearAndStartMessage, YearAndEndMessage}
                  /\ ~self.site_cache_dir.set
                  /\ cache = << >> /\ saved = {}

\* C24, the part the code keeps: the two refusals, before anything is
\* prepared, fetched or written
C24_RefusalsBeforeAnyWork ==
    CreateDone =>
        LET given == call_in.year # 0
            start == call_in.start_date # NoDate
            end == call_in.end_date # NoDate
        IN  ((~given /\ ~start) \/ (given /\ (start \/ end))) =>
                  /\ call_out.kind = "raise"
                  /\ call_out.exc = "AssertionError"
                  /\ call_out.names \subseteq
                        {StartWithoutYearMessage, YearAndStartMessage, YearAndEndMessage}
                  /\ ~self.site_cache_dir.set
                  /\ cache = << >> /\ saved = {}

\* C24, what the code does with year only: the period is stored and the
\* validation then fails reading start_date.year of None
C24_YearOnlyRaisesAttributeError ==
    (CreateDone /\ call_in.year # 0
       /\ call_in.start_date = NoDate /\ call_in.end_date = NoDate) =>
        /\ call_out = NoAttribute("year")
        /\ self.start_date = Set(Jan1(call_in.year))

(***************************************************************************)
(* Further claims about the fetch pool (under Spec).                       *)
(***************************************************************************)
Fetching == op = "get_grib_data" /\ phase \in {"parallel", "after"}
TasksDone == {i \in DOMAIN task : task[i] = "done"}

\* the files a run with one worker leaves: those of the hours before the
\* first one whose fetch fails, all of them when none fails
SequentialWritten(dates, failing) ==
    {save_path(dates[i]) :
        i \in {k \in DOMAIN dates : \A j \in 1..k : dates[j] \notin failing}}

\* C25: two distinct timestamps of one request have different cache paths,
\* so that in every interleaving, for any n_jobs, no cache file is written by
\* more than one task and the files the call leaves are the same as in the
\* one-worker order.
C25_CacheKeysNeverCollide ==
    /\ Fetching =>
          /\ \A i, j \in DOMAIN args.dates :
                args.dates[i] # args.dates[j] =>
                    save_path(args.dates[i]) # save_path(args.dates[j])
          /\ Cardinality(written) = Cardinality(TasksDone)
    /\ FetchDone =>
          /\ written = SequentialWritten(args.dates, args.failing)
          /\ \A t \in Range(args.dates) :
                save_path(t) \in written => cache[save_path(t)] = HourFrame(t)

\* C25, the part the code keeps: the paths differ, every finished task has
\* written one file of its own, and a request none of whose fetches fails
\* leaves the same files in every interleaving
C25_DistinctKeysOneWriterEach ==
    /\ Fetching =>
          /\ \A i, j \in DOMAIN args.dates :
                args.dates[i] # args.dates[j] =>
                    save_path(args.dates[i]) # save_path(args.dates[j])
          /\ Cardinality(written) = Cardinality(TasksDone)
    /\ (FetchDone /\ Range(args.dates) \cap args.failing = {}) =>
          /\ written = {save_path(t) : t \in Range(args.dates)}
          /\ \A t \in Range(args.dates) : cache[save_path(t)] = HourFrame(t)

\* C28: whenever get_grib_data returns normally, every requested timestamp
\* either has a cache file written by this call or is in the returned list,
\* never both and never neither, and the returned list holds requested
\* timestamps only, in request order.
C28_EveryTimestampAccountedOnce ==
    (FetchDone /\ result.kind = "return") =>
        /\ \A t \in Range(args.dates) :
              (save_path(t) \in written) # (t \in Range(result.value))
        /\ Range(result.value) \subseteq Range(args.dates)
        /\ LET Listed(t) == t \in Range(result.value)
           IN  result.value = SelectSeq(args.dates, Listed)

C28_Witness ==
    /\ FetchDone
    /\ result.kind = "return"
    /\ Len(args.dates) = 2
    /\ Cardinality(written) = 2
    /\ result.value = << >>


(***************************************************************************)
(* Claims about the derivation of a row (under SpecRow).                   *)
(***************************************************************************)
Derived == call_in.fn = "post_process_cached_data" /\ Len(frames) >= 2
AmyDone ==
    /\ call_in.fn = "post_process_cached_data"
    /\ Len(frames) = 3
    /\ call_out = Returned(3)
RawRow == frames[1]
AmyRow == frames[3]

\* C26 as stated: in every row _amy_data_df produces, 'direct normal
\* radiation' is the raw vbdsf and 'diffuse horizontal radiation' the raw
\* vddsf, so each illuminance is 122 times the radiation column of the same
\* name and the global horizontal radiation is direct x cos(zenith) + diffuse
\* of those two columns.
C26_RadiationColumnsCarryTheirFields ==
    AmyDone =>
        /\ AmyRow.direct_normal_radiation = RawRow.vbdsf
        /\ AmyRow.diffuse_horizontal_radiation = RawRow.vddsf
        /\ AmyRow.direct_normal_illuminance = 122 * AmyRow.direct_normal_radiation
        /\ AmyRow.diffuse_horizontal_illuminance =
               122 * AmyRow.diffuse_horizontal_radiation
        /\ AmyRow.global_horizontal_radiation =
               (AmyRow.direct_normal_radiation * TwiceCos(call_in.zenith)) \div 2
                 + AmyRow.diffuse_horizontal_radiation

\* C26, what the code does instead: the two radiation columns carry each
\* other's field, while the illuminances and the global radiation are
\* computed from the raw fields the claim names.
C26_RadiationColumnsSwapped ==
    AmyDone =>
        /\ AmyRow.direct_normal_radiation = RawRow.vddsf
        /\ AmyRow.diffuse_horizontal_radiation = RawRow.vbdsf
        /\ AmyRow.direct_normal_illuminance = 122 * RawRow.vbdsf
        /\ AmyRow.diffuse_horizontal_illuminance = 122 * RawRow.vddsf
        /\ AmyRow.global_horizontal_radiation =
               (RawRow.vbdsf * TwiceCos(call_in.zenith)) \div 2 + RawRow.vddsf

\* a rainy, non-frozen row of low gust
RainyDrizzleRow ==
    /\ RawRow.tp > 0
    /\ RawRow.crain
    /\ RawRow.cpofp <= 0
    /\ RawRow.gust <= 150

\* C27 as stated: the third weather-code character of a rainy, non-frozen,
\* low-gust row is decided by the row's visibility in km against 1 km and
\* 0.5 km: '4' at 800 m, '5' at 300 m.
C27_DrizzleTierByVisibilityInKm ==
    (AmyDone /\ RainyDrizzleRow) =>
        AmyRow.present_weather_codes[3] = DrizzleCode(RawRow.vis \div 100, RawRow.cpofp)

\* C27, what the code does instead: the raw metres are compared with 1 and
\* 0.5, so every visibility of a metre or more gives '3'.
C27_DrizzleTierByVisibilityInMetres ==
    (AmyDone /\ RainyDrizzleRow) =>
        /\ AmyRow.present_weather_codes[3] = DrizzleCode(10 * RawRow.vis, RawRow.cpofp)
        /\ RawRow.vis >= 1 => AmyRow.present_weather_codes[3] = 3

\* C29: in every output row whose raw cloud covers are non-negative with
\* tcc <= 100, 'opaque sky cover [tenths]' lies between 0 and 'total sky
\* cover [tenths]' = tcc / 10, also when lcc + mcc exceeds tcc.
C29_OpaqueBetweenZeroAndTotal ==
    (AmyDone /\ RawRow.lcc >= 0 /\ RawRow.mcc >= 0 /\ RawRow.hcc >= 0
             /\ RawRow.tcc >= 0 /\ RawRow.tcc <= 100) =>
        /\ AmyRow.total_sky_cover * 10 = OpaqueScale * RawRow.tcc
        /\ 0 <= AmyRow.opaque_sky_cover
        /\ AmyRow.opaque_sky_cover <= AmyRow.total_sky_cover

\* C29 witness: an output row whose low and middle cover exceed its positive
\* total cover, the opaque cover then equal to the total
C29_Witness ==
    /\ AmyDone
    /\ RawRow.tcc > 0
    /\ RawRow.lcc + RawRow.mcc > RawRow.tcc
    /\ AmyRow.opaque_sky_cover = AmyRow.total_sky_cover

\* C30 as stated: _intermediate_calculations and _amy_data_df leave the raw
\* table passed to them unchanged and never reassign self.uc and self.vc,
\* and the basis is set in preprocess before any row is processed: once
\* preprocess has run the basis is there, and the derivation finds it.
C30_DerivationOnlyReadsBasisSetInPreprocess ==
    (call_in.fn = "post_process_cached_data") =>
        /\ RawRow = call_in.cache_df
        /\ self.uc = call_in.uc /\ self.vc = call_in.vc
        /\ self.site_cache_dir.set => (self.uc.set /\ self.vc.set)
        /\ (Derived /\ self.site_cache_dir.set) => call_out.kind = "return"

\* C30, the part the code keeps: the raw table and the basis are as they
\* were before the derivation, whatever its outcome.
C30_DerivationLeavesRawTableAndBasis ==
    (call_in.fn = "post_process_cached_data") =>
        /\ RawRow = call_in.cache_df
        /\ self.uc = call_in.uc /\ self.vc = call_in.vc

\* C30, the part the code does not keep: preprocess never assigns the basis
\* (it raises at the scan), and a derivation on an object that has none
\* raises AttributeError.
C30_PreprocessLeavesBasisUnset ==
    (call_in.fn = "post_process_cached_data" /\ ~call_in.uc.set) =>
        /\ ~self.uc.set
        /\ Derived => call_out = NoAttribute("uc")

====
